---- MODULE Spec2Model ----
(***************************************************************************)
(* OAuth2AuthProvider (plugins/auth-backend/src/providers/oauth2):         *)
(* the three entry points start / handler / refresh of one provider        *)
(* instance, called concurrently, together with the identity resolution    *)
(* populateIdentity.  Every call is a transaction that is suspended at the *)
(* network calls it awaits (token endpoint, profile endpoint); the         *)
(* authorization server is the environment and answers nondeterministically.*)
(*                                                                         *)
(* The helpers of lib/PassportStrategyHelper (executeRedirectStrategy,     *)
(* executeFrameHandlerStrategy, executeRefreshTokenStrategy,               *)
(* executeFetchUserProfileStrategy, makeProfileInfo) are modelled from the *)
(* contract of the OAuth Strategy Adapter and the Identity Resolver.       *)
(***************************************************************************)
EXTENDS Naturals, Sequences, FiniteSets, TLC

VARIABLES
    provider,     \* the OAuth2AuthProvider instance: [_strategy |-> options]
    calls,        \* calls[c]: the c-th call on the instance (a transaction)
    resolveIn,    \* populateIdentity applied alone: the two responses given
    resolveOut,   \* ... and what it returned for each (<<>> before the call)
    factoryIn,    \* createOAuth2Provider applied alone: its arguments
    factoryOut    \* ... and what it returned or threw (<<>> before the call)

vars == <<provider, calls, resolveIn, resolveOut, factoryIn, factoryOut>>

-----------------------------------------------------------------------------
(* Bounds *)

\* number of calls made on the provider instance
MaxCalls == 2
\* longest email address of the identity-resolution specification
MaxLen == 3

Calls == 1..MaxCalls

-----------------------------------------------------------------------------
(* Values *)

\* JavaScript's undefined, for the token-valued (string) fields
Undefined == "undefined"

\* An optional string made of characters: undefined, or a sequence of
\* characters ("" is the empty sequence).
NoEmail == [defined |-> FALSE, str |-> <<>>]
Str(s) == [defined |-> TRUE, str |-> s]

Chars == {"a", "b", "@"}
Strings(n) == UNION {[1..k -> Chars] : k \in 0..n}
\* every value profile.email can take, up to length n
EmailValues(n) == {NoEmail} \cup {Str(s) : s \in Strings(n)}

\* The emails the profile endpoint serves in the protocol specification:
\* absent, empty, local@domain, leading '@'.
ProfileEmails ==
    { NoEmail,
      Str(<<>>),
      Str(<<"a", "@", "b">>),
      Str(<<"@", "a">>) }

\* JavaScript truthiness of an optional string: undefined and "" are falsy
Falsy(e) == ~e.defined \/ e.str = <<>>

\* s.indexOf(ch), 1-based; 0 when ch does not occur
IndexOf(s, ch) ==
    IF \E i \in 1..Len(s) : s[i] = ch
    THEN CHOOSE i \in 1..Len(s) : s[i] = ch /\ \A j \in 1..(i - 1) : s[j] # ch
    ELSE 0

\* String.prototype.split(sep) for a one-character separator: the segments
\* between the occurrences of sep, in order ("".split(sep) is [""]).
RECURSIVE split(_, _)
split(s, sep) ==
    LET i == IndexOf(s, sep)
    IN  IF i = 0
        THEN <<s>>
        ELSE <<SubSeq(s, 1, i - 1)>> \o split(SubSeq(s, i + 1, Len(s)), sep)

\* { ...a, ...b }: the keys of both, b's value winning on a common key
Spread(a, b) ==
    [k \in (DOMAIN a) \cup (DOMAIN b) |-> IF k \in DOMAIN b THEN b[k] ELSE a[k]]

\* The settled value of a promise
Resolved(v) == [settled |-> "resolved", value |-> v]
Rejected(e) == [settled |-> "rejected", error |-> e]

-----------------------------------------------------------------------------
(* Error kinds *)

\* new Error('Profile does not contain a profile'): the error populateIdentity
\* throws, the IdentityResolutionError of the error taxonomy
IdentityResolutionError == "Profile does not contain a profile"

CallbackError == "CallbackError"
ExchangeError == "ExchangeError"
RefreshError == "RefreshError"
ProfileFetchError == "ProfileFetchError"
Cancelled == "Cancelled"

-----------------------------------------------------------------------------
(* The authorization server (environment) *)

Users == {"u1", "u2"}

\* what the authorization server issues to a user
AuthCode(u) == IF u = "u1" THEN "code1" ELSE "code2"
AccessTokenOf(u) == IF u = "u1" THEN "AT1" ELSE "AT2"
RefreshTokenOf(u) == IF u = "u1" THEN "RT1" ELSE "RT2"
RotatedTokenOf(u) == IF u = "u1" THEN "RT1b" ELSE "RT2b"
IdTokenOf(u) == IF u = "u1" THEN "ID1" ELSE "ID2"
DisplayNameOf(u) == IF u = "u1" THEN "User One" ELSE "User Two"

\* every refresh token the authorization server ever issues
IssuedRefreshTokens ==
    {RefreshTokenOf(u) : u \in Users} \cup {RotatedTokenOf(u) : u \in Users}

\* a placeholder for a value that does not exist yet
None == [none |-> TRUE]

HttpError(code) == [status |-> code, body |-> None]
HttpOk(body) == [status |-> 200, body |-> body]

\* JSON bodies of the token endpoint: "at least access_token, optionally
\* refresh_token, id_token, expires_in, scope"
TokenBody(at, rt, id, scope) ==
    [access_token |-> at, refresh_token |-> rt, id_token |-> id,
     expires_in |-> 3600, scope |-> scope]

\* grant_type=authorization_code: what the token endpoint may answer to code
CodeGrantResponses(code) ==
    {HttpError(401)} \cup
    UNION { { HttpOk(TokenBody(AccessTokenOf(u), RefreshTokenOf(u), IdTokenOf(u), "read")),
              HttpOk(TokenBody(AccessTokenOf(u), Undefined, Undefined, "read")),
              HttpOk(TokenBody(Undefined, Undefined, Undefined, "read")) }
            : u \in {v \in Users : AuthCode(v) = code} }

\* grant_type=refresh_token: an unknown token is rejected, a known one may be
\* (revoked, expired); the answer may carry a rotated refresh_token
RefreshGrantResponses(refreshToken, scope) ==
    {HttpError(401)} \cup
    UNION { { HttpOk(TokenBody(AccessTokenOf(u), RotatedTokenOf(u), IdTokenOf(u), scope)),
              HttpOk(TokenBody(AccessTokenOf(u), Undefined, Undefined, scope)) }
            : u \in {v \in Users : RefreshTokenOf(v) = refreshToken} }

\* the provider-shaped profile of the profile endpoint
RawProfile(u, email) ==
    [provider |-> "oauth2", id |-> u, displayName |-> DisplayNameOf(u), email |-> email]

\* GET profile with Authorization: Bearer accessToken
ProfileResponses(accessToken) ==
    {HttpError(500)} \cup
    { HttpOk(RawProfile(u, e)) :
        u \in {v \in Users : AccessTokenOf(v) = accessToken}, e \in ProfileEmails }

-----------------------------------------------------------------------------
(* lib/PassportStrategyHelper and the strategy, from the adapter's contract *)

\* makeProfileInfo(rawProfile, idToken): extracts email, displayName (and
\* picture) from the provider's shape; no coercion
makeProfileInfo(rawProfile, idToken) ==
    [email |-> rawProfile.email, displayName |-> rawProfile.displayName]

\* the options the adapter turns into query parameters, and their names there
AuthorizationParamName(option) ==
    CASE option = "scope" -> "scope"
      [] option = "state" -> "state"
      [] option = "accessType" -> "access_type"
      [] option = "prompt" -> "prompt"

AuthorizationOptions == {"scope", "state", "accessType", "prompt"}

\* buildAuthorizationRequest: the authorization URL with client_id,
\* redirect_uri, response_type=code and the parameters of the options
executeRedirectStrategy(strategy, options) ==
    LET base == [client_id |-> strategy.clientID,
                 redirect_uri |-> strategy.callbackURL,
                 response_type |-> "code"]
        given == {AuthorizationParamName(o) : o \in (DOMAIN options) \cap AuthorizationOptions}
        extra == [p \in given |->
                    LET o == CHOOSE o \in (DOMAIN options) \cap AuthorizationOptions :
                                 AuthorizationParamName(o) = p
                    IN options[o]]
    IN  Resolved([url |-> [endpoint |-> strategy.authorizationURL,
                           query |-> Spread(base, extra)],
                  status |-> 302])

\* exchangeCodeForToken, first step: the code carried by the request
frameCode(code) ==
    IF code = Undefined THEN Rejected(CallbackError) ELSE Resolved(code)

\* exchangeCodeForToken, second step: the token endpoint's answer; fails on
\* a non-2xx answer or a payload without access_token
frameToken(resp) ==
    IF resp.status # 200 \/ resp.body.access_token = Undefined
    THEN Rejected(ExchangeError)
    ELSE Resolved([accessToken |-> resp.body.access_token,
                   refreshToken |-> resp.body.refresh_token,
                   params |-> resp.body])

\* exchangeCodeForToken, third step: the profile fetched with the new token
frameProfile(presp) ==
    IF presp.status # 200 THEN Rejected(ExchangeError) ELSE Resolved(presp.body)

\* exchangeRefreshToken(refreshToken, scope) -> {accessToken, params}
executeRefreshTokenStrategy(resp) ==
    IF resp.status # 200
    THEN Rejected(RefreshError)
    ELSE Resolved([accessToken |-> resp.body.access_token, params |-> resp.body])

\* fetchProfile(accessToken, idToken) -> profile
executeFetchUserProfileStrategy(presp, idToken) ==
    IF presp.status # 200
    THEN Rejected(ProfileFetchError)
    ELSE Resolved(makeProfileInfo(presp.body, idToken))

-----------------------------------------------------------------------------
(* provider.ts *)

\* the options createOAuth2Provider constructs the provider with
ProviderOptions ==
    [clientId |-> "c1",
     clientSecret |-> "s1",
     callbackUrl |-> <<"http://host/auth", "/", "oauth2", "/handler/frame">>,
     authorizationUrl |-> "https://idp/auth",
     tokenUrl |-> "https://idp/token"]

\* constructor: the strategy built from the options
OAuth2AuthProvider(options) ==
    [_strategy |->
        [clientID |-> options.clientId,
         clientSecret |-> options.clientSecret,
         callbackURL |-> options.callbackUrl,
         authorizationURL |-> options.authorizationUrl,
         tokenURL |-> options.tokenUrl,
         passReqToCallback |-> FALSE]]

\* verify handing the refresh token to done inside the response as well
verifyWithRefreshToken(accessToken, refreshToken, params, rawProfile) ==
    LET profile == makeProfileInfo(rawProfile, params.id_token)
    IN  [response |->
            [providerInfo |->
                [idToken |-> params.id_token,
                 accessToken |-> accessToken,
                 scope |-> params.scope,
                 expiresInSeconds |-> params.expires_in,
                 refreshToken |-> refreshToken],
             profile |-> profile],
         privateInfo |-> [refreshToken |-> refreshToken]]

\* the strategy's verify callback: done(undefined, response, privateInfo)
verify(accessToken, refreshToken, params, rawProfile) ==
    LET profile == makeProfileInfo(rawProfile, params.id_token)
    IN  [response |->
            [providerInfo |->
                [idToken |-> params.id_token,
                 accessToken |-> accessToken,
                 scope |-> params.scope,
                 expiresInSeconds |-> params.expires_in],
             profile |-> profile],
         privateInfo |-> [refreshToken |-> refreshToken]]

\* populateIdentity without its check of the email
populateIdentityNoCheck(response) ==
    LET profile == response.profile
        id == split(profile.email.str, "@")[1]
    IN  Resolved(Spread(response, [backstageIdentity |-> [id |-> id]]))

\* s.lastIndexOf(ch), 1-based; 0 when ch does not occur
LastIndexOf(s, ch) ==
    IF \E i \in 1..Len(s) : s[i] = ch
    THEN CHOOSE i \in 1..Len(s) : s[i] = ch /\ \A j \in (i + 1)..Len(s) : s[j] # ch
    ELSE 0

\* populateIdentity cutting the email at its last '@'
populateIdentityLastAt(response) ==
    LET profile == response.profile
    IN  IF Falsy(profile.email)
        THEN Rejected(IdentityResolutionError)
        ELSE LET at == LastIndexOf(profile.email.str, "@")
                 id == IF at = 0 THEN profile.email.str
                       ELSE SubSeq(profile.email.str, 1, at - 1)
             IN  Resolved(Spread(response, [backstageIdentity |-> [id |-> id]]))

\* populateIdentity returning a providerInfo without the id token
populateIdentityClearsIdToken(response) ==
    LET profile == response.profile
    IN  IF Falsy(profile.email)
        THEN Rejected(IdentityResolutionError)
        ELSE LET id == split(profile.email.str, "@")[1]
             IN  Resolved(Spread(response,
                                 [backstageIdentity |-> [id |-> id],
                                  providerInfo |->
                                     [response.providerInfo EXCEPT !.idToken = Undefined]]))

\* populateIdentity(response)
populateIdentity(response) ==
    LET profile == response.profile
    IN  IF Falsy(profile.email)
        THEN Rejected(IdentityResolutionError)
        ELSE LET id == split(profile.email.str, "@")[1]
             IN  Resolved(Spread(response, [backstageIdentity |-> [id |-> id]]))

\* the options of start with the caller's values spread last
providerOptionsCallerWins(options) ==
    Spread([accessType |-> "offline", prompt |-> "consent"], options)

\* start: the options handed to executeRedirectStrategy
providerOptions(options) ==
    Spread(options, [accessType |-> "offline", prompt |-> "consent"])

\* start(req, options)
start(strategy, options) ==
    executeRedirectStrategy(strategy, providerOptions(options))

\* handler catching the rejection of executeFrameHandlerStrategy and returning
\* an empty result
handlerPartial(frame) ==
    IF frame.settled = "rejected"
    THEN Resolved([response |-> [providerInfo |-> None, profile |-> None],
                   refreshToken |-> Undefined])
    ELSE LET identity == populateIdentity(frame.value.response)
         IN  IF identity.settled = "rejected"
             THEN Rejected(identity.error)
             ELSE Resolved([response |-> identity.value,
                            refreshToken |-> frame.value.privateInfo.refreshToken])

\* handler(req), from the point where executeFrameHandlerStrategy has settled
\* with frame
handler(frame) ==
    IF frame.settled = "rejected"
    THEN Rejected(frame.error)
    ELSE LET identity == populateIdentity(frame.value.response)
         IN  IF identity.settled = "rejected"
             THEN Rejected(identity.error)
             ELSE Resolved([response |-> identity.value,
                            refreshToken |-> frame.value.privateInfo.refreshToken])

\* refresh: the arguments of executeFetchUserProfileStrategy
refreshFetchArgs(token) ==
    [accessToken |-> token.accessToken, idToken |-> token.params.id_token]

\* the response of refresh carrying the refresh token of the token answer
refreshResponseWithToken(token, profile) ==
    [providerInfo |->
        [accessToken |-> token.accessToken,
         idToken |-> token.params.id_token,
         expiresInSeconds |-> token.params.expires_in,
         scope |-> token.params.scope],
     profile |-> profile,
     refreshToken |-> token.params.refresh_token]

\* the response of refresh with the email cut down to its local part
refreshResponseLocalPart(token, profile) ==
    [providerInfo |->
        [accessToken |-> token.accessToken,
         idToken |-> token.params.id_token,
         expiresInSeconds |-> token.params.expires_in,
         scope |-> token.params.scope],
     profile |->
        [profile EXCEPT !.email =
            IF Falsy(@) THEN @ ELSE Str(split(@.str, "@")[1] \o <<"@">>)]]

\* refresh: the response handed to populateIdentity
refreshResponse(token, profile) ==
    [providerInfo |->
        [accessToken |-> token.accessToken,
         idToken |-> token.params.id_token,
         expiresInSeconds |-> token.params.expires_in,
         scope |-> token.params.scope],
     profile |-> profile]

\* refresh wrapping every failure of its awaits into one error
refreshOneKind(token, fetched) ==
    IF token.settled = "rejected"
    THEN Rejected(RefreshError)
    ELSE IF fetched.settled = "rejected"
         THEN Rejected(RefreshError)
         ELSE populateIdentity(refreshResponse(token.value, fetched.value))

\* refresh(refreshToken, scope), from the settled values of its two awaits
\* (fetched is None while the first has rejected)
refresh(token, fetched) ==
    IF token.settled = "rejected"
    THEN Rejected(token.error)
    ELSE IF fetched.settled = "rejected"
         THEN Rejected(fetched.error)
         ELSE populateIdentity(refreshResponse(token.value, fetched.value))

-----------------------------------------------------------------------------
(* The calls on the provider instance *)

Pending == [settled |-> "pending"]

\* a call that has not been made yet
IdleCall ==
    [kind |-> "idle",        \* "start", "handler" or "refresh" once made
     pc |-> "idle",          \* "exchange": token request outstanding,
                             \* "profile": profile request outstanding, "done"
     input |-> None,         \* the arguments of the call
     tokenResp |-> None,     \* the token endpoint's answer, as received
     profileResp |-> None,   \* the profile endpoint's answer, as received
     token |-> None,         \* the settled token step
     frame |-> None,         \* the settled value populateIdentity is run on
     log |-> <<>>,           \* the steps of the transaction, in order
     cancelled |-> "no",     \* the pc at which the inbound request was
                             \* cancelled by its client, "no" while it is not
     outcome |-> Pending]    \* what the caller gets

\* calls are numbered in the order they are made
CanCall(c) ==
    /\ calls[c].kind = "idle"
    /\ IF c = 1 THEN TRUE ELSE calls[c - 1].kind # "idle"

Settle(call, result, events) ==
    [call EXCEPT !.pc = "done", !.outcome = result, !.log = @ \o events]

\* the options callers pass to start
StartOptions ==
    { [k \in {} |-> ""],
      [scope |-> "read"],
      [scope |-> "read", state |-> "s"],
      [scope |-> "read", accessType |-> "online"],
      [scope |-> "read", accessType |-> "online", prompt |-> "none"],
      [access_type |-> "online", prompt |-> "none"] }

\* the codes a callback request carries (undefined: none)
RequestCodes == {AuthCode(u) : u \in Users} \cup {Undefined}

\* the refresh tokens callers pass to refresh: what handler returned (also
\* the undefined one) or a token the authorization server does not know
CallerRefreshTokens == {RefreshTokenOf(u) : u \in Users} \cup {Undefined, "revoked"}

CallerScopes == {"read"}

Init ==
    /\ provider = OAuth2AuthProvider(ProviderOptions)
    /\ calls = [c \in Calls |-> IdleCall]
    /\ resolveIn = <<>>
    /\ resolveOut = <<>>
    /\ factoryIn = <<>>
    /\ factoryOut = <<>>

\* start sending a token request after it has built the redirect
StartWithExchange(c) ==
    /\ CanCall(c)
    /\ \E options \in StartOptions :
         calls' = [calls EXCEPT ![c] =
                     Settle([IdleCall EXCEPT !.kind = "start",
                                              !.input = [options |-> options]],
                            start(provider._strategy, options),
                            <<"redirect", "token.request">>)]
    /\ UNCHANGED <<provider, resolveIn, resolveOut, factoryIn, factoryOut>>

\* start(req, options): no suspension point before it returns
Start(c) ==
    /\ CanCall(c)
    /\ \E options \in StartOptions :
         calls' = [calls EXCEPT ![c] =
                     Settle([IdleCall EXCEPT !.kind = "start",
                                              !.input = [options |-> options]],
                            start(provider._strategy, options),
                            <<"redirect">>)]
    /\ UNCHANGED <<provider, resolveIn, resolveOut, factoryIn, factoryOut>>

\* handler(req) up to its await: executeFrameHandlerStrategy takes the code
\* of the request and sends the token request, or rejects without a code
HandlerCall(c) ==
    /\ CanCall(c)
    /\ \E code \in RequestCodes :
         LET made == [IdleCall EXCEPT !.kind = "handler", !.input = [code |-> code]]
             got == frameCode(code)
         IN  calls' = [calls EXCEPT ![c] =
                         IF got.settled = "rejected"
                         THEN Settle(made, handler(got), <<"callback.failed">>)
                         ELSE [made EXCEPT !.pc = "exchange",
                                           !.log = <<"token.request">>]]
    /\ UNCHANGED <<provider, resolveIn, resolveOut, factoryIn, factoryOut>>

\* the token endpoint answers the code exchange
FrameTokenResponse(c) ==
    /\ calls[c].kind = "handler"
    /\ calls[c].pc = "exchange"
    /\ \E resp \in CodeGrantResponses(calls[c].input.code) :
         LET got == frameToken(resp)
             seen == [calls[c] EXCEPT !.tokenResp = resp]
         IN  calls' = [calls EXCEPT ![c] =
                         IF got.settled = "rejected"
                         THEN Settle(seen, handler(got), <<"token.failed">>)
                         ELSE [seen EXCEPT !.pc = "profile",
                                           !.token = got,
                                           !.log = @ \o <<"token.ok", "profile.request">>]]
    /\ UNCHANGED <<provider, resolveIn, resolveOut, factoryIn, factoryOut>>

\* The events of populateIdentity, run as part of the continuation that
\* returns result
IdentityEvents(result) ==
    <<"identity.start",
      IF result.settled = "rejected" THEN "identity.failed" ELSE "identity.ok">>

\* the profile endpoint answers; the strategy calls verify,
\* executeFrameHandlerStrategy resolves with what verify passed to done, and
\* handler continues after its await: populateIdentity and the return (the
\* continuation runs before any other answer is delivered)
FrameProfileResponse(c) ==
    /\ calls[c].kind = "handler"
    /\ calls[c].pc = "profile"
    /\ \E presp \in ProfileResponses(calls[c].token.value.accessToken) :
         LET got == frameProfile(presp)
             t == calls[c].token.value
             seen == [calls[c] EXCEPT !.profileResp = presp]
         IN  calls' = [calls EXCEPT ![c] =
                         IF got.settled = "rejected"
                         THEN Settle(seen, handler(got), <<"profile.failed">>)
                         ELSE LET frame == Resolved(verify(t.accessToken, t.refreshToken,
                                                           t.params, got.value))
                                  result == handler(frame)
                              IN  Settle([seen EXCEPT !.frame = frame], result,
                                         <<"profile.ok">> \o IdentityEvents(result))]
    /\ UNCHANGED <<provider, resolveIn, resolveOut, factoryIn, factoryOut>>

\* refresh sending the profile request together with the token request
RefreshCallNoAwait(c) ==
    /\ CanCall(c)
    /\ \E refreshToken \in CallerRefreshTokens, scope \in CallerScopes :
         calls' = [calls EXCEPT ![c] =
                     [IdleCall EXCEPT !.kind = "refresh",
                                      !.input = [refreshToken |-> refreshToken,
                                                 scope |-> scope],
                                      !.pc = "exchange",
                                      !.log = <<"token.request", "profile.request">>]]
    /\ UNCHANGED <<provider, resolveIn, resolveOut, factoryIn, factoryOut>>

\* refresh(refreshToken, scope) up to its first await: the token request
RefreshCall(c) ==
    /\ CanCall(c)
    /\ \E refreshToken \in CallerRefreshTokens, scope \in CallerScopes :
         calls' = [calls EXCEPT ![c] =
                     [IdleCall EXCEPT !.kind = "refresh",
                                      !.input = [refreshToken |-> refreshToken,
                                                 scope |-> scope],
                                      !.pc = "exchange",
                                      !.log = <<"token.request">>]]
    /\ UNCHANGED <<provider, resolveIn, resolveOut, factoryIn, factoryOut>>

\* refresh sending the token request a second time when the first is rejected
RefreshTokenResponseRetry(c) ==
    /\ calls[c].kind = "refresh"
    /\ calls[c].pc = "exchange"
    /\ \E resp \in RefreshGrantResponses(calls[c].input.refreshToken,
                                         calls[c].input.scope) :
         LET got == executeRefreshTokenStrategy(resp)
             seen == [calls[c] EXCEPT !.tokenResp = resp, !.token = got]
         IN  calls' = [calls EXCEPT ![c] =
                         IF got.settled = "rejected"
                         THEN IF Len(calls[c].log) = 1
                              THEN [calls[c] EXCEPT
                                       !.log = @ \o <<"token.failed", "token.request">>]
                              ELSE Settle(seen, refresh(got, None), <<"token.failed">>)
                         ELSE [seen EXCEPT !.pc = "profile",
                                           !.log = @ \o <<"token.ok", "profile.request">>]]
    /\ UNCHANGED <<provider, resolveIn, resolveOut, factoryIn, factoryOut>>

\* refresh after its first await: a rejection ends the call, otherwise the
\* profile request is sent
RefreshTokenResponse(c) ==
    /\ calls[c].kind = "refresh"
    /\ calls[c].pc = "exchange"
    /\ \E resp \in RefreshGrantResponses(calls[c].input.refreshToken,
                                         calls[c].input.scope) :
         LET got == executeRefreshTokenStrategy(resp)
             seen == [calls[c] EXCEPT !.tokenResp = resp, !.token = got]
         IN  calls' = [calls EXCEPT ![c] =
                         IF got.settled = "rejected"
                         THEN Settle(seen, refresh(got, None), <<"token.failed">>)
                         ELSE [seen EXCEPT !.pc = "profile",
                                           !.log = @ \o <<"token.ok", "profile.request">>]]
    /\ UNCHANGED <<provider, resolveIn, resolveOut, factoryIn, factoryOut>>

\* refresh fetching the profile with the token kept by whichever call
\* exchanged one last (a token held in a field of the instance)
RefreshProfileResponseShared(c) ==
    /\ calls[c].kind = "refresh"
    /\ calls[c].pc = "profile"
    /\ \E d \in Calls :
         /\ calls[d].token # None
         /\ calls[d].token.settled = "resolved"
         /\ LET args == refreshFetchArgs(calls[d].token.value)
            IN  \E presp \in ProfileResponses(args.accessToken) :
                  LET got == executeFetchUserProfileStrategy(presp, args.idToken)
                      seen == [calls[c] EXCEPT !.profileResp = presp, !.frame = got]
                      result == refresh(calls[c].token, got)
                  IN  calls' = [calls EXCEPT ![c] =
                                  IF got.settled = "rejected"
                                  THEN Settle(seen, result, <<"profile.failed">>)
                                  ELSE Settle(seen, result,
                                              <<"profile.ok">> \o IdentityEvents(result))]
    /\ UNCHANGED <<provider, resolveIn, resolveOut, factoryIn, factoryOut>>

\* refresh after its second await: a rejection ends the call, otherwise
\* populateIdentity is run on the assembled response and its result returned
RefreshProfileResponse(c) ==
    /\ calls[c].kind = "refresh"
    /\ calls[c].pc = "profile"
    /\ LET args == refreshFetchArgs(calls[c].token.value)
       IN  \E presp \in ProfileResponses(args.accessToken) :
             LET got == executeFetchUserProfileStrategy(presp, args.idToken)
                 seen == [calls[c] EXCEPT !.profileResp = presp, !.frame = got]
                 result == refresh(calls[c].token, got)
             IN  calls' = [calls EXCEPT ![c] =
                             IF got.settled = "rejected"
                             THEN Settle(seen, result, <<"profile.failed">>)
                             ELSE Settle(seen, result,
                                         <<"profile.ok">> \o IdentityEvents(result))]
    /\ UNCHANGED <<provider, resolveIn, resolveOut, factoryIn, factoryOut>>

Next ==
    \E c \in Calls :
        \/ Start(c)
        \/ HandlerCall(c)
        \/ FrameTokenResponse(c)
        \/ FrameProfileResponse(c)
        \/ RefreshCall(c)
        \/ RefreshTokenResponse(c)
        \/ RefreshProfileResponse(c)

Spec == Init /\ [][Next]_vars

\* The client of a handler or refresh call gives up (the inbound request is
\* closed or times out) while a request of the call is outstanding.  Neither
\* method takes or reads an abort signal, so nothing of the call changes but
\* the fact itself.
CancelRequest(c) ==
    /\ calls[c].kind \in {"handler", "refresh"}
    /\ calls[c].pc \in {"exchange", "profile"}
    /\ calls[c].cancelled = "no"
    /\ calls' = [calls EXCEPT ![c].cancelled = calls[c].pc]
    /\ UNCHANGED <<provider, resolveIn, resolveOut, factoryIn, factoryOut>>

NextCancel ==
    \/ Next
    \/ \E c \in Calls : CancelRequest(c)

SpecCancel == Init /\ [][NextCancel]_vars

-----------------------------------------------------------------------------
(* populateIdentity alone, on every email up to MaxLen *)

\* the responses populateIdentity is given
ResolveInputs ==
    { [providerInfo |-> [accessToken |-> AccessTokenOf(u), idToken |-> Undefined,
                         scope |-> "read", expiresInSeconds |-> 3600],
       profile |-> [email |-> e, displayName |-> DisplayNameOf(u)]] :
        u \in Users, e \in EmailValues(MaxLen) }

InitResolve ==
    /\ provider = OAuth2AuthProvider(ProviderOptions)
    /\ calls = [c \in Calls |-> IdleCall]
    /\ resolveIn \in ResolveInputs \X ResolveInputs
    /\ resolveOut = <<>>
    /\ factoryIn = <<>>
    /\ factoryOut = <<>>

Resolve ==
    /\ resolveOut = <<>>
    /\ resolveOut' = <<populateIdentity(resolveIn[1]), populateIdentity(resolveIn[2])>>
    /\ UNCHANGED <<provider, calls, resolveIn, factoryIn, factoryOut>>

NextResolve == Resolve

SpecResolve == InitResolve /\ [][NextResolve]_vars

-----------------------------------------------------------------------------
(* createOAuth2Provider alone, on every environment configuration *)

\* a function that returned v, or threw e
Returns(v) == [throws |-> FALSE, value |-> v]
Throws(e) == [throws |-> TRUE, error |-> e]

ConfigError == "ConfigError"

\* the fields createOAuth2Provider reads with getString, in its order
RequiredFields == <<"clientId", "clientSecret", "authorizationUrl", "tokenUrl">>

\* Config.getString(key): the string at key; fails when there is none
getString(envConfig, key) ==
    IF key \in DOMAIN envConfig THEN Returns(envConfig[key]) ELSE Throws(ConfigError)

\* Config.getOptionalString(key): the string at key, or undefined
getOptionalString(envConfig, key) ==
    IF key \in DOMAIN envConfig THEN Returns(envConfig[key]) ELSE Returns(Undefined)

\* OAuthProvider.fromConfig(config, provider, options): the handlers the host
\* gets, bound to the token issuer
fromConfig(config, handlers, options) ==
    [handlers |-> handlers,
     providerId |-> options.providerId,
     disableRefresh |-> options.disableRefresh,
     tokenIssuer |-> options.tokenIssuer,
     baseUrl |-> config.baseUrl]

\* createOAuth2Provider reading tokenUrl as an optional string
createOAuth2ProviderOptionalTokenUrl(config, id, envConfig, tokenIssuer) ==
    LET providerId == "oauth2"
        clientId == getString(envConfig, "clientId")
        clientSecret == getString(envConfig, "clientSecret")
        callbackUrl == <<config.baseUrl, "/", providerId, "/handler/frame">>
        authorizationUrl == getString(envConfig, "authorizationUrl")
        tokenUrl == getOptionalString(envConfig, "tokenUrl")
        reads == <<clientId, clientSecret, authorizationUrl, tokenUrl>>
    IN  IF \E i \in 1..Len(reads) : reads[i].throws
        THEN [constructed |-> None,
              result |-> Throws(reads[CHOOSE i \in 1..Len(reads) :
                                        /\ reads[i].throws
                                        /\ \A j \in 1..(i - 1) : ~reads[j].throws].error)]
        ELSE LET made == OAuth2AuthProvider(
                            [clientId |-> clientId.value,
                             clientSecret |-> clientSecret.value,
                             callbackUrl |-> callbackUrl,
                             authorizationUrl |-> authorizationUrl.value,
                             tokenUrl |-> tokenUrl.value])
             IN  [constructed |-> made,
                  result |-> Returns(fromConfig(config, made,
                                                [disableRefresh |-> FALSE,
                                                 providerId |-> providerId,
                                                 tokenIssuer |-> tokenIssuer]))]

\* createOAuth2Provider(config, _, envConfig, _logger, tokenIssuer): the first
\* getString that fails ends it; constructed is the provider instance it has
\* made (None when it has made none), result what it returned or threw
createOAuth2Provider(config, id, envConfig, tokenIssuer) ==
    LET providerId == "oauth2"
        clientId == getString(envConfig, "clientId")
        clientSecret == getString(envConfig, "clientSecret")
        callbackUrl == <<config.baseUrl, "/", providerId, "/handler/frame">>
        authorizationUrl == getString(envConfig, "authorizationUrl")
        tokenUrl == getString(envConfig, "tokenUrl")
        reads == <<clientId, clientSecret, authorizationUrl, tokenUrl>>
    IN  IF \E i \in 1..Len(reads) : reads[i].throws
        THEN [constructed |-> None,
              result |-> Throws(reads[CHOOSE i \in 1..Len(reads) :
                                        /\ reads[i].throws
                                        /\ \A j \in 1..(i - 1) : ~reads[j].throws].error)]
        ELSE LET made == OAuth2AuthProvider(
                            [clientId |-> clientId.value,
                             clientSecret |-> clientSecret.value,
                             callbackUrl |-> callbackUrl,
                             authorizationUrl |-> authorizationUrl.value,
                             tokenUrl |-> tokenUrl.value])
             IN  [constructed |-> made,
                  result |-> Returns(fromConfig(config, made,
                                                [disableRefresh |-> FALSE,
                                                 providerId |-> providerId,
                                                 tokenIssuer |-> tokenIssuer]))]

\* the value the environment configuration holds at a field
EnvValue(field) ==
    CASE field = "clientId" -> "c1"
      [] field = "clientSecret" -> "s1"
      [] field = "authorizationUrl" -> "https://idp/auth"
      [] field = "tokenUrl" -> "https://idp/token"

\* the environment configurations: any of the fields may be missing
EnvConfigs ==
    { [f \in present |-> EnvValue(f)] :
        present \in SUBSET {RequiredFields[i] : i \in 1..Len(RequiredFields)} }

\* the ids the host creates providers under
ProviderIds == {"oauth2", "github", "google"}

BaseUrls == {"http://host/auth", "https://backstage/api/auth"}

FactoryInputs ==
    { [config |-> [baseUrl |-> b], providerId |-> id, envConfig |-> e,
       tokenIssuer |-> "tokenIssuer"] :
        b \in BaseUrls, id \in ProviderIds, e \in EnvConfigs }

InitFactory ==
    /\ provider = OAuth2AuthProvider(ProviderOptions)
    /\ calls = [c \in Calls |-> IdleCall]
    /\ resolveIn = <<>>
    /\ resolveOut = <<>>
    /\ factoryIn \in FactoryInputs
    /\ factoryOut = <<>>

Create ==
    /\ factoryOut = <<>>
    /\ factoryOut' = createOAuth2Provider(factoryIn.config, factoryIn.providerId,
                                          factoryIn.envConfig, factoryIn.tokenIssuer)
    /\ UNCHANGED <<provider, calls, resolveIn, resolveOut, factoryIn>>

NextFactory == Create

SpecFactory == InitFactory /\ [][NextFactory]_vars

-----------------------------------------------------------------------------
(* Properties *)

Done(c) == calls[c].pc = "done"
Resolves(c) == Done(c) /\ calls[c].outcome.settled = "resolved"

\* the call failed with error, and the caller got nothing else
FailsWith(c, error) ==
    /\ Done(c)
    /\ calls[c].outcome = Rejected(error)
    /\ DOMAIN calls[c].outcome = {"settled", "error"}

\* the call got as far as a profile: populateIdentity was given one
HasProfile(c) ==
    /\ calls[c].kind \in {"handler", "refresh"}
    /\ Done(c)
    /\ calls[c].frame # None
    /\ calls[c].frame.settled = "resolved"

\* the profile populateIdentity was given
ProfileOf(c) ==
    IF calls[c].kind = "handler"
    THEN calls[c].frame.value.response.profile
    ELSE calls[c].frame.value

\* the OAuthResponse a resolved call returned
ResponseOf(c) ==
    IF calls[c].kind = "handler"
    THEN calls[c].outcome.value.response
    ELSE calls[c].outcome.value

Has(log, event) == \E i \in 1..Len(log) : log[i] = event

\* every occurrence of event in log has an earlier occurrence of earlier
Precedes(log, earlier, event) ==
    \A j \in 1..Len(log) :
        log[j] = event => \E i \in 1..(j - 1) : log[i] = earlier

TokenAnswered(c) == calls[c].tokenResp # None
ProfileAnswered(c) == calls[c].profileResp # None

\* C1: a handler or refresh call whose profile has an absent or empty email
\* fails with IdentityResolutionError; the caller gets no response (and, from
\* handler, no refresh token), so no backstageIdentity is produced.
C1_MissingEmailFails ==
    \A c \in Calls :
        (HasProfile(c) /\ Falsy(ProfileOf(c).email))
            => FailsWith(c, IdentityResolutionError)

C1_Witness ==
    \E c, d \in Calls :
        /\ calls[c].kind = "handler" /\ HasProfile(c)
        /\ ProfileOf(c).email = NoEmail
        /\ calls[d].kind = "refresh" /\ HasProfile(d)
        /\ ProfileOf(d).email = Str(<<>>)
        /\ FailsWith(c, IdentityResolutionError)
        /\ FailsWith(d, IdentityResolutionError)

\* id is what stands before the first '@' of email: a prefix of it without
\* '@' that is the whole of it or is followed by '@'
IsLocalPart(id, email) ==
    /\ Len(id) <= Len(email)
    /\ \A i \in 1..Len(id) : id[i] = email[i] /\ id[i] # "@"
    /\ Len(id) = Len(email) \/ email[Len(id) + 1] = "@"

\* C2: populateIdentity resolves every response whose email is not empty,
\* the id it adds is the part of the email before its first '@', and two
\* responses with the same email get the same id whatever else they hold.
C2_IdIsLocalPart ==
    resolveOut # <<>> =>
        /\ \A i \in 1..2 :
             ~Falsy(resolveIn[i].profile.email) =>
                /\ resolveOut[i].settled = "resolved"
                /\ DOMAIN resolveOut[i].value.backstageIdentity = {"id"}
                /\ IsLocalPart(resolveOut[i].value.backstageIdentity.id,
                               resolveIn[i].profile.email.str)
        /\ \A i, j \in 1..2 :
             (/\ ~Falsy(resolveIn[i].profile.email)
              /\ resolveIn[i].profile.email = resolveIn[j].profile.email)
                => resolveOut[i].value.backstageIdentity
                     = resolveOut[j].value.backstageIdentity

C2_Witness ==
    /\ resolveOut # <<>>
    /\ resolveIn[1].profile.email = Str(<<"a", "@", "@">>)
    /\ resolveIn[2].profile.email = resolveIn[1].profile.email
    /\ resolveIn[1].providerInfo # resolveIn[2].providerInfo
    /\ resolveOut[1].value.backstageIdentity.id = <<"a">>
    /\ resolveOut[2].value.backstageIdentity.id = <<"a">>

\* C3: the authorization request of every start call carries
\* access_type=offline and prompt=consent, whatever options the caller gave.
C3_FixedParamsWin ==
    \A c \in Calls :
        (calls[c].kind = "start" /\ Done(c)) =>
            /\ calls[c].outcome.settled = "resolved"
            /\ {"access_type", "prompt"} \subseteq DOMAIN calls[c].outcome.value.url.query
            /\ calls[c].outcome.value.url.query.access_type = "offline"
            /\ calls[c].outcome.value.url.query.prompt = "consent"

C3_Witness ==
    \E c \in Calls :
        /\ calls[c].kind = "start" /\ Done(c)
        /\ {"accessType", "prompt"} \subseteq DOMAIN calls[c].input.options
        /\ calls[c].input.options.accessType = "online"
        /\ calls[c].input.options.prompt = "none"
        /\ calls[c].outcome.value.url.query.access_type = "offline"
        /\ calls[c].outcome.value.url.query.prompt = "consent"

\* the token endpoint rejected the request of the call
TokenRejected(c) == TokenAnswered(c) /\ calls[c].tokenResp.status # 200

\* C4: when the token endpoint rejects the code exchange, handler fails with
\* ExchangeError, the caller gets no response and no refresh token, and the
\* transaction neither fetches a profile nor resolves an identity.
C4_ExchangeRejected ==
    \A c \in Calls :
        (calls[c].kind = "handler" /\ TokenRejected(c)) =>
            /\ FailsWith(c, ExchangeError)
            /\ ~Has(calls[c].log, "profile.request")
            /\ ~Has(calls[c].log, "identity.start")
            /\ ~ProfileAnswered(c)

C4_Witness ==
    \E c \in Calls :
        /\ calls[c].kind = "handler"
        /\ calls[c].tokenResp = HttpError(401)
        /\ FailsWith(c, ExchangeError)

\* the profile endpoint rejected the request of the call
ProfileRejected(c) == ProfileAnswered(c) /\ calls[c].profileResp.status # 200

\* C5: refresh surfaces every failure with its kind: RefreshError for a
\* rejected refresh token, ProfileFetchError for a failed profile fetch,
\* IdentityResolutionError for a profile without email; the kinds differ from
\* each other and from ExchangeError, and refresh resolves only when no step
\* failed and the profile has an email (no fallback identity).
C5_RefreshFailureKinds ==
    /\ Cardinality({CallbackError, ExchangeError, RefreshError,
                    ProfileFetchError, IdentityResolutionError}) = 5
    /\ \A c \in Calls :
         (calls[c].kind = "refresh" /\ Done(c)) =>
            /\ TokenRejected(c) => FailsWith(c, RefreshError)
            /\ ProfileRejected(c) => FailsWith(c, ProfileFetchError)
            /\ (HasProfile(c) /\ Falsy(ProfileOf(c).email))
                  => FailsWith(c, IdentityResolutionError)
            /\ Resolves(c) =>
                  /\ ~TokenRejected(c) /\ ~ProfileRejected(c)
                  /\ HasProfile(c) /\ ~Falsy(ProfileOf(c).email)
                  /\ ~Falsy(ResponseOf(c).profile.email)

C5_Witness ==
    \E c, d \in Calls :
        /\ calls[c].kind = "refresh" /\ TokenRejected(c)
        /\ FailsWith(c, RefreshError)
        /\ calls[d].kind = "refresh" /\ ProfileRejected(d)
        /\ FailsWith(d, ProfileFetchError)

\* no token-valued field of providerInfo holds a refresh token
NoRefreshTokenIn(info) ==
    \A f \in (DOMAIN info) \ {"expiresInSeconds"} : info[f] \notin IssuedRefreshTokens

\* C6: what refresh returns is an OAuthResponse without a refresh token: no
\* refreshToken field, and no refresh token in providerInfo, also when the
\* token endpoint's answer carries a refresh_token; handler returns the
\* refresh token of the code exchange in its refreshToken field.
C6_RefreshReturnsNoRefreshToken ==
    \A c \in Calls :
        /\ (calls[c].kind = "refresh" /\ Resolves(c)) =>
              /\ DOMAIN calls[c].outcome.value
                    = {"providerInfo", "profile", "backstageIdentity"}
              /\ NoRefreshTokenIn(calls[c].outcome.value.providerInfo)
        /\ (calls[c].kind = "handler" /\ Resolves(c)) =>
              /\ "refreshToken" \in DOMAIN calls[c].outcome.value
              /\ calls[c].outcome.value.refreshToken
                    = calls[c].tokenResp.body.refresh_token

C6_Witness ==
    \E c, d \in Calls :
        /\ calls[c].kind = "refresh" /\ Resolves(c)
        /\ calls[c].tokenResp.body.refresh_token \in IssuedRefreshTokens
        /\ "refreshToken" \notin DOMAIN calls[c].outcome.value
        /\ calls[d].kind = "handler" /\ Resolves(d)
        /\ calls[d].outcome.value.refreshToken \in IssuedRefreshTokens

FailureEvents == {"callback.failed", "token.failed", "profile.failed", "identity.failed"}

\* C7: in every transaction the profile request is sent only after the token
\* exchange has succeeded, identity resolution starts only after the profile
\* fetch has succeeded, and nothing follows a failed step.
C7_StepsSequential ==
    \A c \in Calls :
        LET log == calls[c].log
        IN  /\ Precedes(log, "token.request", "token.ok")
            /\ Precedes(log, "token.ok", "profile.request")
            /\ Precedes(log, "profile.request", "profile.ok")
            /\ Precedes(log, "profile.ok", "identity.start")
            /\ \A i \in 1..Len(log) : log[i] \in FailureEvents => i = Len(log)
            /\ calls[c].pc = "profile" =>
                  log[Len(log)] = "profile.request" /\ ~ProfileAnswered(c)
            /\ calls[c].pc = "exchange" =>
                  log = <<"token.request">> /\ ~TokenAnswered(c)

C7_Witness ==
    \E c, d \in Calls :
        /\ calls[c].kind = "refresh"
        /\ calls[c].log = <<"token.request", "token.ok", "profile.request",
                            "profile.ok", "identity.start", "identity.ok">>
        /\ calls[d].kind = "handler"
        /\ calls[d].log = <<"token.request", "token.ok", "profile.request",
                            "profile.failed">>

\* refresh call r was given the refresh token handler call h returned, and
\* the profile endpoint served both the same profile
RoundTrip(h, r) ==
    /\ calls[h].kind = "handler" /\ Resolves(h)
    /\ calls[r].kind = "refresh" /\ Resolves(r)
    /\ calls[r].input.refreshToken = calls[h].outcome.value.refreshToken
    /\ calls[r].profileResp = calls[h].profileResp

\* C8: when refresh is given the refresh token a handler call returned and
\* the upstream profile is the same, the response refresh returns has the
\* profile.email and the backstageIdentity of the handler call's response.
C8_RoundTrip ==
    \A h, r \in Calls :
        RoundTrip(h, r) =>
            /\ ResponseOf(r).profile.email = ResponseOf(h).profile.email
            /\ ResponseOf(r).backstageIdentity = ResponseOf(h).backstageIdentity

C8_Witness ==
    \E h, r \in Calls :
        /\ RoundTrip(h, r)
        /\ calls[h].outcome.value.refreshToken \in IssuedRefreshTokens
        /\ ResponseOf(r).profile.email = Str(<<"a", "@", "b">>)
        /\ ResponseOf(r).backstageIdentity.id = <<"a">>

\* C9: when the token answer of the code exchange has no refresh_token,
\* handler does not resolve with an undefined refreshToken.
C9_NoSilentUndefinedRefreshToken ==
    \A c \in Calls :
        (/\ calls[c].kind = "handler" /\ Resolves(c)
         /\ calls[c].tokenResp.body.refresh_token = Undefined)
            => calls[c].outcome.value.refreshToken # Undefined

\* what the call returns when it is the only call: its code run in order on
\* its own arguments and the answers the authorization server gave it
OutcomeAlone(call) ==
    CASE call.kind = "start" -> start(provider._strategy, call.input.options)
      [] call.kind = "handler" ->
            LET code == frameCode(call.input.code)
                token == frameToken(call.tokenResp)
                raw == frameProfile(call.profileResp)
            IN  IF code.settled = "rejected" THEN handler(code)
                ELSE IF token.settled = "rejected" THEN handler(token)
                ELSE IF raw.settled = "rejected" THEN handler(raw)
                ELSE handler(Resolved(verify(token.value.accessToken,
                                             token.value.refreshToken,
                                             token.value.params, raw.value)))
      [] call.kind = "refresh" ->
            LET token == executeRefreshTokenStrategy(call.tokenResp)
            IN  IF token.settled = "rejected" THEN refresh(token, None)
                ELSE refresh(token,
                             executeFetchUserProfileStrategy(
                                 call.profileResp,
                                 refreshFetchArgs(token.value).idToken))

\* the answers a call got are answers to its own requests
OwnAnswers(call) ==
    /\ (call.kind = "handler" /\ call.tokenResp # None)
          => call.tokenResp \in CodeGrantResponses(call.input.code)
    /\ (call.kind = "refresh" /\ call.tokenResp # None)
          => call.tokenResp \in RefreshGrantResponses(call.input.refreshToken,
                                                      call.input.scope)
    /\ call.profileResp # None
          => call.profileResp \in ProfileResponses(call.tokenResp.body.access_token)

\* a step changes the record of one call at most, and never the provider
OneCallPerStep ==
    /\ provider' = provider
    /\ \A c, d \in Calls :
         (c # d /\ calls'[c] # calls[c]) => calls'[d] = calls[d]

\* C10: in every interleaving of the calls, each call gets the answers to
\* its own requests and returns what it returns when run alone on them; a
\* step of one call changes neither another call nor the provider instance.
C10_CallsIndependent ==
    /\ [](\A c \in Calls :
            /\ OwnAnswers(calls[c])
            /\ Done(c) => calls[c].outcome = OutcomeAlone(calls[c]))
    /\ [][OneCallPerStep]_vars

\* a handler call and a refresh call of different users, both suspended at
\* their profile request at once
C10_Witness ==
    \E c, d \in Calls :
        /\ calls[c].kind = "handler" /\ calls[d].kind = "refresh"
        /\ calls[c].pc = "profile" /\ calls[d].pc = "profile"
        /\ calls[c].tokenResp.body.access_token # calls[d].tokenResp.body.access_token

\* C11: a call whose inbound request was cancelled while its token or
\* profile request was outstanding ends with the Cancelled outcome, and its
\* caller gets no response.
C11_CancelledOutcome ==
    \A c \in Calls :
        (calls[c].cancelled # "no" /\ Done(c)) => FailsWith(c, Cancelled)

MissingFields(envConfig) ==
    {RequiredFields[i] : i \in 1..Len(RequiredFields)} \ DOMAIN envConfig

\* C12: when clientId, clientSecret, authorizationUrl or tokenUrl is missing
\* from the environment configuration, createOAuth2Provider fails with
\* ConfigError, has constructed no provider instance and hands none to the
\* host.
C12_MissingConfigFailsFast ==
    (factoryOut # <<>> /\ MissingFields(factoryIn.envConfig) # {}) =>
        /\ factoryOut.result = Throws(ConfigError)
        /\ DOMAIN factoryOut.result = {"throws", "error"}
        /\ factoryOut.constructed = None

C12_Witness ==
    /\ factoryOut # <<>>
    /\ MissingFields(factoryIn.envConfig) = {"tokenUrl"}
    /\ factoryOut.result = Throws(ConfigError)
    /\ factoryOut.constructed = None

\* C13: the callback URL of the provider the factory constructs is
\* baseUrl + "/" + providerId + "/handler/frame" for the providerId the
\* factory was passed.
C13_CallbackUrlOfPassedId ==
    (factoryOut # <<>> /\ ~factoryOut.result.throws) =>
        factoryOut.constructed._strategy.callbackURL
            = <<factoryIn.config.baseUrl, "/", factoryIn.providerId, "/handler/frame">>

\* C14: in every successful handler result the refresh token is in the
\* refreshToken field only: response has the fields providerInfo, profile and
\* backstageIdentity, none of them is or holds a refresh token (email and id
\* are character sequences cut from the profile endpoint's answer).
C14_RefreshTokenOutsideResponse ==
    \A c \in Calls :
        (calls[c].kind = "handler" /\ Resolves(c)) =>
            LET response == calls[c].outcome.value.response
            IN  /\ DOMAIN calls[c].outcome.value = {"response", "refreshToken"}
                /\ DOMAIN response = {"providerInfo", "profile", "backstageIdentity"}
                /\ "refreshToken" \notin DOMAIN response.providerInfo
                /\ NoRefreshTokenIn(response.providerInfo)
                /\ DOMAIN response.profile = {"email", "displayName"}
                /\ response.profile.displayName \notin IssuedRefreshTokens
                /\ DOMAIN response.backstageIdentity = {"id"}

C14_Witness ==
    \E c \in Calls :
        /\ calls[c].kind = "handler" /\ Resolves(c)
        /\ calls[c].tokenResp.body.refresh_token \in IssuedRefreshTokens
        /\ calls[c].outcome.value.refreshToken = calls[c].tokenResp.body.refresh_token
        /\ NoRefreshTokenIn(calls[c].outcome.value.response.providerInfo)

Count(log, event) == Cardinality({i \in 1..Len(log) : log[i] = event})

\* the failure a failed step ends a call of the given kind with
FailureOf(kind, event) ==
    CASE event = "callback.failed" -> CallbackError
      [] event = "token.failed" ->
            IF kind = "handler" THEN ExchangeError ELSE RefreshError
      [] event = "profile.failed" ->
            IF kind = "handler" THEN ExchangeError ELSE ProfileFetchError
      [] event = "identity.failed" -> IdentityResolutionError

\* C15: in every transaction the token request and the profile request are
\* each sent at most once, and the first failed step ends the transaction
\* with the failure of that step.
C15_NoInternalRetry ==
    \A c \in Calls :
        LET log == calls[c].log
        IN  /\ Count(log, "token.request") <= 1
            /\ Count(log, "profile.request") <= 1
            /\ \A i \in 1..Len(log) :
                  log[i] \in FailureEvents =>
                      /\ i = Len(log)
                      /\ FailsWith(c, FailureOf(calls[c].kind, log[i]))

C15_Witness ==
    \E c, d \in Calls :
        /\ calls[c].kind = "refresh"
        /\ calls[c].log = <<"token.request", "token.failed">>
        /\ FailsWith(c, RefreshError)
        /\ calls[d].kind = "handler"
        /\ calls[d].log = <<"token.request", "token.ok", "profile.request",
                            "profile.failed">>
        /\ FailsWith(d, ExchangeError)

\* C16: every OAuthResponse handler or refresh returns has a
\* backstageIdentity whose id is not the empty string, whatever email the
\* profile carries.
C16_IdNonEmpty ==
    \A c \in Calls :
        (calls[c].kind \in {"handler", "refresh"} /\ Resolves(c)) =>
            ResponseOf(c).backstageIdentity.id # <<>>

\* the response populateIdentity was given
PreIdentity(c) ==
    IF calls[c].kind = "handler"
    THEN calls[c].frame.value.response
    ELSE refreshResponse(calls[c].token.value, calls[c].frame.value)

\* C17: in every successful handler or refresh result providerInfo holds the
\* access_token, id_token, scope and expires_in of the token endpoint's
\* answer of that call, and the result is the response populateIdentity was
\* given with backstageIdentity added: providerInfo and profile are the same.
C17_CredentialPassThrough ==
    \A c \in Calls :
        (calls[c].kind \in {"handler", "refresh"} /\ Resolves(c)) =>
            LET body == calls[c].tokenResp.body
                response == ResponseOf(c)
            IN  /\ DOMAIN response = {"providerInfo", "profile", "backstageIdentity"}
                /\ response.providerInfo =
                      [accessToken |-> body.access_token,
                       idToken |-> body.id_token,
                       scope |-> body.scope,
                       expiresInSeconds |-> body.expires_in]
                /\ DOMAIN PreIdentity(c) = {"providerInfo", "profile"}
                /\ response.providerInfo = PreIdentity(c).providerInfo
                /\ response.profile = PreIdentity(c).profile

C17_Witness ==
    \E c, d \in Calls :
        /\ calls[c].kind = "handler" /\ Resolves(c)
        /\ ResponseOf(c).providerInfo.idToken = IdTokenOf("u1")
        /\ ResponseOf(c).providerInfo.accessToken = AccessTokenOf("u1")
        /\ calls[d].kind = "refresh" /\ Resolves(d)
        /\ ResponseOf(d).providerInfo.idToken = IdTokenOf("u2")
        /\ ResponseOf(d).providerInfo.accessToken = AccessTokenOf("u2")
        /\ ResponseOf(d).profile = ProfileOf(d)

\* C18: a start call builds the redirect and nothing else: it sends no token
\* request and no profile request, gets no answer of either endpoint, and
\* resolves no identity; what it returns has no backstageIdentity.
C18_StartOnlyRedirects ==
    \A c \in Calls :
        calls[c].kind = "start" =>
            /\ calls[c].log = <<"redirect">>
            /\ ~TokenAnswered(c)
            /\ ~ProfileAnswered(c)
            /\ calls[c].token = None
            /\ calls[c].frame = None
            /\ Resolves(c)
            /\ DOMAIN calls[c].outcome.value = {"url", "status"}

C18_Witness ==
    \E c, d \in Calls :
        /\ calls[c].kind = "start" /\ Resolves(c)
        /\ calls[c].log = <<"redirect">>
        /\ calls[d].kind = "handler" /\ Has(calls[d].log, "token.request")

====
